---- MODULE Spec2Model ----
(***************************************************************************)
(* The chat client:                                                        *)
(*   ApiService.sendStreamMessage   (src/src/services/api.ts)              *)
(*   useChat                        (src/unnamed/part_001, useChat hook)   *)
(*   NotificationService            (src/unnamed/part_001)                 *)
(* Text is a sequence of one-character strings, so that a read of the      *)
(* response body can end anywhere inside a line.                           *)
(***************************************************************************)
EXTENDS Integers, Sequences, FiniteSets, TLC

\* ------------------------------------------------------------------ bounds
\* lines in one response body, single-send specification
MaxLines == 2
\* lines in one response body, session specification
SessLines == 1
\* sends in one session
MaxSends == 2
\* sendStreamMessage calls that can be outstanding together
MaxCalls == 2
\* the clock advances at most this far above ClockBase
ClockSpan == 1
\* first value Date.now() returns
ClockBase == 1000
\* content frames in one reply, conversation-list specifications
UILines == 1
\* clicks on the conversation list in one session
MaxOps == 2
\* calls of the public methods of NotificationService
MaxApi == 3
\* fetches the polling timer issues
MaxPolls == 2
\* notification fetches the server answers
MaxAnswers == 2
\* events in one answer to a notification fetch
MaxBatch == 2
\* errors the push channel reports
MaxErrors == 1
\* messages the push channel delivers
MaxMsgs == 1
\* subscribe and subscribeAll calls made
MaxRegs == 3
\* calls of one unsubscribe closure
MaxUnsubs == 2
\* notification events the push channel delivers where listeners are
\* subscribed
MaxEvents == 2
\* distinct notification events a hook is handed
MaxArrivals == 103
\* arrivals of an id after the buffer evicted it
MaxAgain == 1
\* events the server makes while the service polls
MaxServer == 2

\* -------------------------------------------------------------- JS values
\* null / undefined conversation id (useState<string | null>(null))
NoConv == 0
\* undefined message id (let finalUserMessageId: number | undefined)
NoId == 0

NL == "\n"
\* the literal 'data: ' of line.startsWith('data: ')
Prefix == <<"d", "a", "t", "a", ":", " ">>

\* ------------------------------------------------------------ text helpers
\* String.prototype.split('\n'): always at least one element
RECURSIVE Split(_, _)
Split(s, sep) ==
  IF \A i \in 1..Len(s) : s[i] # sep
  THEN <<s>>
  ELSE LET i == CHOOSE k \in 1..Len(s) :
                  s[k] = sep /\ \A j \in 1..(k - 1) : s[j] # sep
       IN  <<SubSeq(s, 1, i - 1)>> \o Split(SubSeq(s, i + 1, Len(s)), sep)

\* const lines = buffer.split('\n') followed by lines.pop(): the complete lines
CompleteLines(text) ==
  LET all == Split(text, NL) IN SubSeq(all, 1, Len(all) - 1)

\* buffer = lines.pop() || '': the trailing partial line
Remainder(text) ==
  LET all == Split(text, NL) IN all[Len(all)]

\* line.startsWith(p)
StartsWith(line, p) ==
  Len(line) >= Len(p) /\ SubSeq(line, 1, Len(p)) = p

\* line.slice(n)
Slice(line, n) == SubSeq(line, n + 1, Len(line))

\* String.prototype.trim() over the blank character " "
RECURSIVE Trim(_)
Trim(s) ==
  IF s = <<>> THEN s
  ELSE IF s[1] = " " THEN Trim(Tail(s))
  ELSE IF s[Len(s)] = " " THEN Trim(SubSeq(s, 1, Len(s) - 1))
  ELSE s

\* --------------------------------------------------------------- JSON.parse
\* A StreamChunk is written on the wire as  { field* }  with the fields
\*   A | B      one character of content
\*   F          finished: true
\*   E          error: set
\*   c<digits>  conversation_id
\*   u<digits>  user_message_id
\*   p<digits>  assistant_message_id
\* Anything else is not valid JSON and makes JSON.parse throw.
Digits == <<"0", "1", "2", "3", "4", "5", "6", "7", "8", "9">>
IsDigit(ch) == \E i \in 1..Len(Digits) : Digits[i] = ch
DigitVal(ch) == (CHOOSE i \in 1..Len(Digits) : Digits[i] = ch) - 1
ContentChars == {"A", "B"}

\* a chunk in which every optional field is absent and finished is false
EmptyChunk ==
  [content |-> <<>>, finished |-> FALSE, error |-> FALSE,
   conversation_id |-> NoConv, user_message_id |-> NoId,
   assistant_message_id |-> NoId]

\* the digits of s starting at i: [val, next]
RECURSIVE ParseNumber(_, _, _)
ParseNumber(s, i, acc) ==
  IF i <= Len(s) /\ IsDigit(s[i])
  THEN ParseNumber(s, i + 1, 10 * acc + DigitVal(s[i]))
  ELSE [val |-> acc, next |-> i]

RECURSIVE ParseFields(_, _, _)
ParseFields(s, i, acc) ==
  IF i > Len(s) THEN [ok |-> TRUE, data |-> acc]
  ELSE IF s[i] \in ContentChars
    THEN ParseFields(s, i + 1, [acc EXCEPT !.content = @ \o <<s[i]>>])
  ELSE IF s[i] = "F"
    THEN ParseFields(s, i + 1, [acc EXCEPT !.finished = TRUE])
  ELSE IF s[i] = "E"
    THEN ParseFields(s, i + 1, [acc EXCEPT !.error = TRUE])
  ELSE IF s[i] \in {"c", "u", "p"}
    THEN LET n == ParseNumber(s, i + 1, 0) IN
         IF n.next = i + 1 THEN [ok |-> FALSE, data |-> EmptyChunk]
         ELSE ParseFields(s, n.next,
                IF s[i] = "c" THEN [acc EXCEPT !.conversation_id = n.val]
                ELSE IF s[i] = "u" THEN [acc EXCEPT !.user_message_id = n.val]
                ELSE [acc EXCEPT !.assistant_message_id = n.val])
  ELSE [ok |-> FALSE, data |-> EmptyChunk]

\* JSON.parse(text): ok = FALSE stands for the SyntaxError it throws
ParseJSON(s) ==
  IF Len(s) >= 2 /\ s[1] = "{" /\ s[Len(s)] = "}"
  THEN ParseFields(SubSeq(s, 2, Len(s) - 1), 1, EmptyChunk)
  ELSE [ok |-> FALSE, data |-> EmptyChunk]

\* ------------------------------------------------------------------- state
VARIABLES
  messages,             \* useChat: ChatMessage[]
  currentConversation,  \* useChat: string | null
  isLoading,            \* useChat: boolean
  reloads,              \* number of loadConversations() calls made
  now,                  \* last value returned by Date.now()
  nSends,               \* sends started so far
  calls,                \* the sendStreamMessage calls, one record per slot
  conversations,        \* useChat: Conversation[], as the set of their ids
  pending,              \* requests of useChat awaiting their response
  nOps,                 \* clicks on the conversation list so far
  notify,               \* the NotificationService singleton and its runtime
  session,              \* localStorage's access_token and user, the location
  hooks                 \* the useNotifications instances, one per consumer

vars == <<messages, currentConversation, isLoading, reloads, now, nSends, calls,
          conversations, pending, nOps, notify, session, hooks>>
chatVars == <<messages, currentConversation, isLoading, reloads, now, nSends,
              calls>>
listVars == <<conversations, pending, nOps>>
\* what the chat screen leaves alone
sideVars == <<notify, session, hooks>>
\* what the notification service leaves alone
appVars == <<chatVars, listVars, session>>

Slots == 1..MaxCalls
MaxClock == ClockBase + ClockSpan

\* a slot no call occupies
IdleCall ==
  [pc |-> "idle", no |-> 0, ending |-> "none",
   body |-> <<>>, pos |-> 0, buffer |-> <<>>, fed |-> <<>>, log |-> <<>>,
   userMessageId |-> NoId, tempAssistantId |-> NoId, text |-> <<>>,
   sendConv |-> NoConv, fullContent |-> <<>>,
   finalConversationId |-> NoConv, finalUserMessageId |-> NoId,
   finalAssistantMessageId |-> NoId, before |-> <<>>]

\* ------------------------------------------------------- useChat callbacks
\* The callbacks work on st = [messages, currentConversation, reloads, c],
\* c being the record of the call they belong to.

\* setMessages(prev => prev.map(msg => msg.id === tempAssistantId ? ...))
SetContent(msgs, id, content) ==
  [i \in 1..Len(msgs) |->
     IF msgs[i].id = id THEN [msgs[i] EXCEPT !.content = content] ELSE msgs[i]]

\* Capture with the first value kept instead of the latest
CaptureFirst(old, field) == IF old # 0 THEN old ELSE field

\* which captured value a chunk field leaves behind
Capture(old, field) == IF field # 0 THEN field ELSE old

\* onChunk of useChat.sendStreamMessage
OnChunk(st, chunk) ==
  LET c    == st.c
      full == IF chunk.content # <<>>
              THEN c.fullContent \o chunk.content ELSE c.fullContent
  IN  [st EXCEPT
        !.messages = IF chunk.content # <<>>
                     THEN SetContent(@, c.tempAssistantId, full) ELSE @,
        !.c = [c EXCEPT
                 !.fullContent = full,
                 !.finalConversationId = Capture(@, chunk.conversation_id),
                 !.finalUserMessageId = Capture(@, chunk.user_message_id),
                 !.finalAssistantMessageId =
                     Capture(@, chunk.assistant_message_id)]]

\* the map of onComplete: one message
Reconcile(msg, c) ==
  IF msg.id = c.userMessageId /\ c.finalUserMessageId # NoId
  THEN [msg EXCEPT !.id = c.finalUserMessageId,
                   !.conversation_id = c.finalConversationId]
  ELSE IF msg.id = c.tempAssistantId /\ c.finalAssistantMessageId # NoId
  THEN [msg EXCEPT !.id = c.finalAssistantMessageId,
                   !.conversation_id = c.finalConversationId]
  ELSE msg

\* OnComplete adopting the resolved conversation whatever was current
OnCompleteAlwaysAdopt(st) ==
  LET c     == st.c
      adopt == c.finalConversationId # NoConv
  IN  [st EXCEPT
        !.messages = [i \in 1..Len(@) |-> Reconcile(@[i], c)],
        !.currentConversation = IF adopt THEN c.finalConversationId ELSE @,
        !.reloads = IF adopt THEN @ + 1 ELSE @]

\* onComplete of useChat.sendStreamMessage
OnComplete(st) ==
  LET c     == st.c
      adopt == c.sendConv = NoConv /\ c.finalConversationId # NoConv
  IN  [st EXCEPT
        !.messages = [i \in 1..Len(@) |-> Reconcile(@[i], c)],
        !.currentConversation = IF adopt THEN c.finalConversationId ELSE @,
        !.reloads = IF adopt THEN @ + 1 ELSE @]

\* prev.filter(msg => msg.id !== tempAssistantId && msg.id !== userMessage.id)
RemoveSend(msgs, c) ==
  SelectSeq(msgs, LAMBDA m : m.id # c.tempAssistantId /\ m.id # c.userMessageId)

\* onError of useChat.sendStreamMessage
OnError(st) == [st EXCEPT !.messages = RemoveSend(@, st.c)]

\* --------------------------------------------- ApiService.sendStreamMessage
Event(cb, data) == [cb |-> cb, data |-> data]

\* the call returns; `ending` records which way
Return(st, ending) == [st EXCEPT !.c.pc = "returned", !.c.ending = ending]

\* Fail with the catch inside the read loop: onError, and the loop goes on
FailKeepsGoing(st, ending) ==
  [OnError(st) EXCEPT !.c.log = Append(@, Event("error", EmptyChunk))]

\* catch (error) { onError(error) }
Fail(st, ending) ==
  Return([OnError(st) EXCEPT !.c.log = Append(@, Event("error", EmptyChunk))],
         ending)

\* Deliver without the return after onComplete()
DeliverNoReturn(st, data) ==
  LET st1 == [OnChunk(st, data) EXCEPT
                !.c.log = Append(@, Event("chunk", data))]
  IN  IF data.finished
      THEN [OnComplete(st1) EXCEPT
              !.c.log = Append(@, Event("complete", EmptyChunk))]
      ELSE st1

\* the body of  if (line.startsWith('data: '))  for a payload that parsed
Deliver(st, data) ==
  LET st1 == [OnChunk(st, data) EXCEPT
                !.c.log = Append(@, Event("chunk", data))]
  IN  IF data.finished
      THEN Return([OnComplete(st1) EXCEPT
                     !.c.log = Append(@, Event("complete", EmptyChunk))],
                  "finished")
      ELSE st1

\* ProcessLine with a parse failure propagated to the outer catch
ProcessLineAbort(st, line) ==
  LET st1 == [st EXCEPT !.c.fed = Append(@, line)]
  IN  IF StartsWith(line, Prefix)
      THEN LET r == ParseJSON(Slice(line, Len(Prefix))) IN
           IF r.ok THEN Deliver(st1, r.data) ELSE Fail(st1, "parse_failed")
      ELSE st1

\* the body of the for loop: one line
ProcessLine(st, line) ==
  LET st1 == [st EXCEPT !.c.fed = Append(@, line)]
  IN  IF StartsWith(line, Prefix)
      THEN LET r == ParseJSON(Slice(line, Len(Prefix))) IN
           IF r.ok THEN Deliver(st1, r.data) ELSE st1
      ELSE st1

\* for (const line of lines) { ... }, from line i on; return leaves the loop
RECURSIVE ProcessLines(_, _, _)
ProcessLines(st, lines, i) ==
  IF i > Len(lines) \/ st.c.pc = "returned" THEN st
  ELSE ProcessLines(ProcessLine(st, lines[i]), lines, i + 1)

\* OnRead with the carry-over buffer not prepended to the next read
OnReadNoCarry(st, value) ==
  LET st1 == [st EXCEPT !.c.buffer = Remainder(value),
                        !.c.pos = @ + Len(value)]
  IN  ProcessLines(st1, CompleteLines(value), 1)

\* one pass of the while loop after reader.read() gave `value`
OnRead(st, value) ==
  LET text == st.c.buffer \o value
      st1  == [st EXCEPT !.c.buffer = Remainder(text),
                         !.c.pos = @ + Len(value)]
  IN  ProcessLines(st1, CompleteLines(text), 1)

\* reader.read() gave done: break, and the call returns
OnDone(st) == Return(st, "closed")

\* ------------------------------------------------------------ server output
\* what the server writes for the k-th send: message ids 10k+1 .. 10k+4
Frame(payload) == Prefix \o <<"{">> \o payload \o <<"}">>
KDigit(k) == Digits[k + 1]

Lines(k) ==
  { Frame(<<"A">>),
    Frame(<<"B", "c", "1">>),
    Frame(<<"F", "u", KDigit(k), "1", "p", KDigit(k), "2">>),
    Frame(<<"F">>),
    Frame(<<"E">>),
    Frame(<<"c", "2", "u", KDigit(k), "3", "p", KDigit(k), "4">>),
    Prefix \o <<"{", "A">>,
    <<"x">>,
    <<>> }

RECURSIVE Join(_)
Join(ls) == IF ls = <<>> THEN <<>> ELSE ls[1] \o <<NL>> \o Join(Tail(ls))

LineSeqs(k, n) == UNION {[1..m -> Lines(k)] : m \in 0..n}

\* every body of at most n lines, the last one newline-terminated or not
Bodies(k, n) ==
  LET joined == {Join(ls) : ls \in LineSeqs(k, n)}
  IN  joined \cup {SubSeq(b, 1, Len(b) - 1) : b \in joined \ {<<>>}}

\* the last frame of a well-formed reply to the k-th send: finished, with or
\* without the ids
FinalFrames(k) ==
  { Frame(<<"F">>),
    Frame(<<"F", "c", "1">>),
    Frame(<<"F", "c", "2", "u", KDigit(k), "1", "p", KDigit(k), "2">>) }

\* the well-formed replies with at most n content frames, whole or cut off
\* before the last frame
Replies(k, n) ==
  LET content == UNION {[1..m -> {Frame(<<"A">>)}] : m \in 0..n}
  IN  {Join(ls) : ls \in content}
        \cup {Join(Append(ls, f)) : ls \in content, f \in FinalFrames(k)}

\* what the user types
Inputs == {<<"Q">>, <<" ", "Q", " ">>, <<" ">>}

\* ------------------------------------------------------------------ actions
Store(s) ==
  [messages |-> messages, currentConversation |-> currentConversation,
   reloads |-> reloads, c |-> calls[s]]

\* write a store back; a call that returned runs the finally of useChat
Commit(s, st) ==
  /\ messages' = st.messages
  /\ currentConversation' = st.currentConversation
  /\ reloads' = st.reloads
  /\ calls' = [calls EXCEPT ![s] = st.c]
  /\ isLoading' = IF st.c.pc = "returned" THEN FALSE ELSE isLoading

Message(id, role, content, conv) ==
  [id |-> id, role |-> role, content |-> content, conversation_id |-> conv]

\* ChatInput.handleSendMessage and useChat.sendStreamMessage up to the fetch
Send(s, input, t1, t2, limit) ==
  /\ ~isLoading
  /\ Trim(input) # <<>>
  /\ nSends < limit
  /\ calls[s].pc \in {"idle", "returned"}
  /\ \A r \in Slots : r < s => calls[r].pc \notin {"idle", "returned"}
  /\ t1 \in now..MaxClock
  /\ t2 \in {t1, t1 + 1} /\ t2 <= MaxClock
  /\ isLoading' = TRUE
  /\ now' = t2
  /\ nSends' = nSends + 1
  /\ messages' = messages \o
       << Message(t1, "user", Trim(input), currentConversation),
          Message(t2 + 1, "assistant", <<>>, currentConversation) >>
  /\ calls' = [calls EXCEPT ![s] =
       [IdleCall EXCEPT !.pc = "fetching", !.no = nSends + 1,
                        !.userMessageId = t1, !.tempAssistantId = t2 + 1,
                        !.text = Trim(input), !.sendConv = currentConversation,
                        !.finalConversationId = currentConversation,
                        !.before = messages]]
  /\ UNCHANGED <<currentConversation, reloads>>

\* fetch() rejects, or answers with a status that is not OK, or without a body
FetchFails(s, ending) ==
  /\ calls[s].pc = "fetching"
  /\ ending \in {"fetch_rejected", "http_error", "no_body"}
  /\ Commit(s, Fail(Store(s), ending))
  /\ UNCHANGED <<now, nSends>>

\* fetch() answers OK with a readable body
FetchOk(s, body) ==
  /\ calls[s].pc = "fetching"
  /\ calls' = [calls EXCEPT ![s].pc = "reading", ![s].body = body]
  /\ UNCHANGED <<messages, currentConversation, isLoading, reloads, now, nSends>>

\* reader.read() resolves with the next n characters of the body
Read(s, n) ==
  /\ calls[s].pc = "reading"
  /\ n \in 1..(Len(calls[s].body) - calls[s].pos)
  /\ Commit(s, OnRead(Store(s),
              SubSeq(calls[s].body, calls[s].pos + 1, calls[s].pos + n)))
  /\ UNCHANGED <<now, nSends>>

\* reader.read() resolves with done: the connection closed
ReadDone(s) ==
  /\ calls[s].pc = "reading"
  /\ calls[s].pos = Len(calls[s].body)
  /\ Commit(s, OnDone(Store(s)))
  /\ UNCHANGED <<now, nSends>>

\* reader.read() rejects
ReadFails(s) ==
  /\ calls[s].pc = "reading"
  /\ Commit(s, Fail(Store(s), "read_failed"))
  /\ UNCHANGED <<now, nSends>>

\* ------------------------------------------- useChat: the conversation list
\* conversation ids the server hands out (the c1, c2 of the stream as well)
ConvIds == {1, 2}

\* ConversationHistory.messages the server may answer for a conversation
Histories(id) ==
  { <<>>, <<[id |-> 90 + id, role |-> "assistant", content |-> <<"H">>,
             conversation_id |-> id]>> }

\* a request awaiting its response; `seen` is the currentConversation the
\* callback that issued it had closed over
Request(kind, conv, seen) == [kind |-> kind, conv |-> conv, seen |-> seen]

\* the pending requests without the i-th
Settle(i) ==
  SubSeq(pending, 1, i - 1) \o SubSeq(pending, i + 1, Len(pending))

\* ConversationList.handleConversationClick -> useChat.selectConversation ->
\* loadConversationHistory up to the await
SelectConversation(id) ==
  /\ nOps < MaxOps
  /\ id \in conversations
  /\ id # currentConversation
  /\ isLoading' = TRUE
  /\ pending' = Append(pending, Request("history", id, currentConversation))
  /\ nOps' = nOps + 1
  /\ UNCHANGED <<messages, currentConversation, reloads, now, nSends, calls,
                 conversations>>

\* loadConversationHistory after the await: the history arrived
HistoryLoaded(i, history) ==
  /\ i \in 1..Len(pending)
  /\ pending[i].kind = "history"
  /\ messages' = history
  /\ currentConversation' = pending[i].conv
  /\ isLoading' = FALSE
  /\ pending' = Settle(i)
  /\ UNCHANGED <<reloads, now, nSends, calls, conversations, nOps>>

\* loadConversationHistory after the await: the request failed
HistoryFails(i) ==
  /\ i \in 1..Len(pending)
  /\ pending[i].kind = "history"
  /\ isLoading' = FALSE
  /\ pending' = Settle(i)
  /\ UNCHANGED <<messages, currentConversation, reloads, now, nSends, calls,
                 conversations, nOps>>

\* useChat.createNewConversation up to the await
CreateNewConversation ==
  /\ nOps < MaxOps
  /\ pending' = Append(pending, Request("create", NoConv, currentConversation))
  /\ nOps' = nOps + 1
  /\ UNCHANGED <<chatVars, conversations>>

\* createNewConversation after the await: the server made conversation id;
\* loadConversations() is called
ConversationCreated(i, id) ==
  /\ i \in 1..Len(pending)
  /\ pending[i].kind = "create"
  /\ currentConversation' = id
  /\ messages' = <<>>
  /\ reloads' = reloads + 1
  /\ pending' = Append(Settle(i), Request("list", NoConv, NoConv))
  /\ UNCHANGED <<isLoading, now, nSends, calls, conversations, nOps>>

\* ConversationList.handleConfirmDelete -> useChat.deleteConversation up to
\* the await
DeleteConversation(id) ==
  /\ nOps < MaxOps
  /\ id \in conversations
  /\ pending' = Append(pending, Request("delete", id, currentConversation))
  /\ nOps' = nOps + 1
  /\ UNCHANGED <<chatVars, conversations>>

\* deleteConversation after the await: the server deleted the conversation
ConversationDeleted(i) ==
  /\ i \in 1..Len(pending)
  /\ pending[i].kind = "delete"
  /\ conversations' = conversations \ {pending[i].conv}
  /\ IF pending[i].conv = pending[i].seen
     THEN currentConversation' = NoConv /\ messages' = <<>>
     ELSE UNCHANGED <<currentConversation, messages>>
  /\ pending' = Settle(i)
  /\ UNCHANGED <<isLoading, reloads, now, nSends, calls, nOps>>

\* useChat.loadConversations after the await: the server answered its list
ConversationsLoaded(i, list) ==
  /\ i \in 1..Len(pending)
  /\ pending[i].kind = "list"
  /\ conversations' = list
  /\ pending' = Settle(i)
  /\ UNCHANGED <<chatVars, nOps>>

\* the catch of createNewConversation, deleteConversation, loadConversations:
\* the request failed, a toast is shown
RequestFails(i) ==
  /\ i \in 1..Len(pending)
  /\ pending[i].kind \in {"create", "delete", "list"}
  /\ pending' = Settle(i)
  /\ UNCHANGED <<chatVars, conversations, nOps>>

\* ------------------------------------------------------ NotificationService
\* The service and the runtime it lives in are one record n:
\*   isPolling, pollingInterval, lastEventId, pollingIntervalMs, eventSource,
\*   isSSESupported      the private fields of the class
\*   intervals           the setInterval timers scheduled, as [id, ms]
\*   timeouts            the setTimeout(() => this.startPolling(), 1000) pending
\*   sources             the EventSource objects made: readyState, by id
\*   inflight            fetchRecentNotifications() calls awaiting an answer
\*   dispatched          the triggerListeners calls made: [event, by]
\*   answered            the batches poll has processed
\*   nPolls, nTimers, nErrors, nMsgs, nApi   counters
\*   listeners           the Map from event type to its listener array
\*   globalListeners     the array of all-events listeners
\*   unsubs              the unsubscribe closures returned so far: what each
\*                       captured, and how often it was called
\*   invoked             the listener calls made: [fn, reg, event, d], d the
\*                       number of the triggerListeners call
\*   escaped             exceptions that left triggerListeners
\*   server              the number of events the server has; they are
\*                       numbered in the order it made them
\*   snapshots           for each fetch awaited, the number of events the
\*                       server had when the fetch was issued
\*   stopped             stop() was the last of start, startPolling, startSSE
\*                       and stop that a consumer called
NoTimer == 0
NoSource == 0
\* lastEventId: string | null = null
NoEvent == <<>>

\* event ids, as text
EventIds == {<<"1">>, <<"2">>, <<"1", "0">>}
EventTypes == {"message_received"}
\* the NotificationType values listeners subscribe to
NotificationTypes == {"message_received", "conversation_updated"}
\* subscribeAll, as a value of the unsubscribe closure's captured type
AllTypes == "*"
\* listener functions by identity; those of Throwing throw when called
Fns == {1, 2}
Throwing == {2}
NotificationEvent(id, type) == [event_id |-> id, event_type |-> type]
Events == {NotificationEvent(id, t) : id \in EventIds, t \in EventTypes}

\* the decimal digits of a number
RECURSIVE IdText(_)
IdText(i) ==
  IF i < 10 THEN <<Digits[i + 1]>>
  ELSE Append(IdText(i \div 10), Digits[(i % 10) + 1])

\* the i-th event in the order of the numbers
NumberedEvent(i) == NotificationEvent(IdText(i), "message_received")

\* a > b on two strings: by the first character that differs, a proper
\* prefix being the smaller
RECURSIVE StrGreater(_, _)
StrGreater(a, b) ==
  IF a = <<>> THEN FALSE
  ELSE IF b = <<>> THEN TRUE
  ELSE IF a[1] # b[1] THEN DigitVal(a[1]) > DigitVal(b[1])
  ELSE StrGreater(Tail(a), Tail(b))

\* the fields after the constructor ran
NewService(supported) ==
  [isPolling |-> FALSE, pollingInterval |-> NoTimer, lastEventId |-> NoEvent,
   pollingIntervalMs |-> 5000, eventSource |-> NoSource,
   isSSESupported |-> supported,
   intervals |-> {}, timeouts |-> 0, sources |-> <<>>, inflight |-> 0,
   dispatched |-> <<>>, answered |-> <<>>,
   nPolls |-> 0, nTimers |-> 0, nErrors |-> 0, nMsgs |-> 0, nApi |-> 0,
   listeners |-> [t \in NotificationTypes |-> <<>>],
   globalListeners |-> <<>>, unsubs |-> <<>>,
   invoked |-> <<>>, escaped |-> 0, stopped |-> FALSE,
   server |-> 0, snapshots |-> <<>>]

\* an entry of a listener array: the function pushed, and the number of the
\* subscribe call that pushed it
Registration(fn, reg) == [fn |-> fn, reg |-> reg]

\* subscribe(eventType, listener); the closure it returns is unsubs[reg]
Subscribe(n, type, fn) ==
  LET reg == Len(n.unsubs) + 1
  IN  [n EXCEPT !.listeners[type] = Append(@, Registration(fn, reg)),
                !.unsubs = Append(@, [type |-> type, fn |-> fn, calls |-> 0])]

\* subscribeAll(listener)
SubscribeAll(n, fn) ==
  LET reg == Len(n.unsubs) + 1
  IN  [n EXCEPT !.globalListeners = Append(@, Registration(fn, reg)),
                !.unsubs = Append(@, [type |-> AllTypes, fn |-> fn,
                                      calls |-> 0])]

\* list.indexOf(fn), counted from 1; 0 when fn is not in the list
RECURSIVE IndexFrom(_, _, _)
IndexFrom(list, fn, i) ==
  IF i > Len(list) THEN 0
  ELSE IF list[i].fn = fn THEN i
  ELSE IndexFrom(list, fn, i + 1)

IndexOf(list, fn) == IndexFrom(list, fn, 1)

\* list.splice(index, 1)
Splice(list, index) ==
  SubSeq(list, 1, index - 1) \o SubSeq(list, index + 1, Len(list))

\* the body of an unsubscribe closure, on the array it looks up
RemoveListener(list, fn) ==
  LET index == IndexOf(list, fn)
  IN  IF index > 0 THEN Splice(list, index) ELSE list

\* the unsubscribe closure returned by subscribe call `reg` is called
Unsubscribe(n, reg) ==
  LET u == n.unsubs[reg]
      n1 == [n EXCEPT !.unsubs[reg].calls = @ + 1]
  IN  IF u.type = AllTypes
      THEN [n1 EXCEPT !.globalListeners = RemoveListener(@, u.fn)]
      ELSE [n1 EXCEPT !.listeners[u.type] = RemoveListener(@, u.fn)]

\* listener(event)
Invoke(n, l, event) ==
  [n EXCEPT !.invoked = Append(@, [fn |-> l.fn, reg |-> l.reg,
                                   event |-> event,
                                   d |-> Len(n.dispatched)])]

\* InvokeAll without the try/catch: the first exception ends the loop and
\* leaves triggerListeners
RECURSIVE InvokeAllNoCatch(_, _, _, _)
InvokeAllNoCatch(n, list, i, event) ==
  IF i > Len(list) THEN n
  ELSE IF list[i].fn \in Throwing
       THEN [Invoke(n, list[i], event) EXCEPT !.escaped = @ + 1]
  ELSE InvokeAllNoCatch(Invoke(n, list[i], event), list, i + 1, event)

\* list.forEach(listener => { try { listener(event) } catch { log } })
RECURSIVE InvokeAll(_, _, _, _)
InvokeAll(n, list, i, event) ==
  IF i > Len(list) THEN n
  ELSE InvokeAll(Invoke(n, list[i], event), list, i + 1, event)

\* triggerListeners(event); `by` tells the caller: the number of the poll
\* answer, or 0 for the push channel
TriggerListeners(n, event, by) ==
  LET n0 == [n EXCEPT !.dispatched = Append(@, [event |-> event, by |-> by])]
      n1 == InvokeAll(n0, n0.listeners[event.event_type], 1, event)
  IN  IF n1.escaped > n0.escaped THEN n1
      ELSE InvokeAll(n1, n1.globalListeners, 1, event)

\* poll up to the await: the fetch is issued
Poll(n) ==
  [n EXCEPT !.inflight = @ + 1, !.nPolls = @ + 1,
            !.snapshots = Append(@, n.server)]

\* the fetch at place i of those awaited has settled
Forget(n, i) ==
  [n EXCEPT !.snapshots = SubSeq(@, 1, i - 1) \o SubSeq(@, i + 1, Len(@))]

\* response.events.forEach(event => { if (...) this.triggerListeners(event) })
RECURSIVE DispatchNew(_, _, _, _)
DispatchNew(n, events, i, by) ==
  IF i > Len(events) THEN n
  ELSE DispatchNew(
         IF n.lastEventId = NoEvent
            \/ StrGreater(events[i].event_id, n.lastEventId)
         THEN TriggerListeners(n, events[i], by) ELSE n,
         events, i + 1, by)

\* poll after the await: the fetch was answered with `events`
OnPollResponse(n, events) ==
  LET n1 == DispatchNew(n, events, 1, Len(n.answered) + 1)
  IN  [n1 EXCEPT
        !.lastEventId = IF Len(events) > 0
                        THEN events[Len(events)].event_id ELSE @,
        !.inflight = @ - 1,
        !.answered = Append(@, events)]

\* OnPollError giving up: the catch stops the polling
OnPollErrorStops(n) ==
  LET n1 == [n EXCEPT !.inflight = @ - 1]
  IN  IF n1.pollingInterval # NoTimer
      THEN [n1 EXCEPT
              !.intervals = {t \in @ : t.id # n1.pollingInterval},
              !.pollingInterval = NoTimer,
              !.isPolling = FALSE]
      ELSE [n1 EXCEPT !.isPolling = FALSE]

\* poll after the await: the fetch failed, the catch logs it
OnPollError(n) == [n EXCEPT !.inflight = @ - 1]

\* startPolling()
StartPolling(n) ==
  IF n.isPolling THEN n
  ELSE LET n1 == Poll([n EXCEPT !.isPolling = TRUE])
           id == n.nTimers + 1
       IN  [n1 EXCEPT !.nTimers = id,
                      !.pollingInterval = id,
                      !.intervals = @ \cup {[id |-> id,
                                             ms |-> n.pollingIntervalMs]}]

\* stopPolling()
StopPolling(n) ==
  LET n1 == IF n.pollingInterval # NoTimer
            THEN [n EXCEPT
                    !.intervals = {t \in @ : t.id # n.pollingInterval},
                    !.pollingInterval = NoTimer]
            ELSE n
  IN  [n1 EXCEPT !.isPolling = FALSE]

\* stopSSE()
StopSSE(n) ==
  IF n.eventSource # NoSource
  THEN [n EXCEPT !.sources[n.eventSource] = "closed",
                 !.eventSource = NoSource]
  ELSE n

\* startSSE(); token: localStorage holds an access_token
StartSSE(n, token) ==
  IF ~n.isSSESupported THEN StartPolling(n)
  ELSE IF ~token THEN StartPolling(n)
  ELSE [n EXCEPT !.sources = Append(@, "connecting"),
                 !.eventSource = Len(n.sources) + 1]

\* OnSSEError without the fallback timeout
OnSSEErrorNoFallback(n) ==
  [StopSSE(n) EXCEPT !.nErrors = @ + 1]

\* eventSource.onerror
OnSSEError(n) ==
  [StopSSE(n) EXCEPT !.timeouts = @ + 1, !.nErrors = @ + 1]

\* JSON.parse(event.data) of what the push channel sends: text that is no
\* JSON (ok = FALSE), the two service messages, a notification event
SSEMsg(ok, type, id, etype) ==
  [ok |-> ok, type |-> type, event_id |-> id, event_type |-> etype]

SSEData ==
  {SSEMsg(FALSE, "", NoEvent, "")}
    \cup {SSEMsg(TRUE, t, NoEvent, "") : t \in {"connected", "heartbeat"}}
    \cup {SSEMsg(TRUE, "", e.event_id, e.event_type) : e \in Events}

\* eventSource.onmessage
OnSSEMessage(n, data) ==
  LET n1 == [n EXCEPT !.nMsgs = @ + 1]
  IN  IF ~data.ok THEN n1
      ELSE IF data.type = "connected" THEN n1
      ELSE IF data.type = "heartbeat" THEN n1
      ELSE IF data.event_type # ""
           THEN TriggerListeners(
                  n1, NotificationEvent(data.event_id, data.event_type), 0)
      ELSE n1

\* start()
Start(n) == [StartPolling(n) EXCEPT !.stopped = FALSE]

\* stop()
Stop(n) == [StopSSE(StopPolling(n)) EXCEPT !.stopped = TRUE]

\* setPollingInterval(intervalMs)
SetPollingInterval(n, ms) ==
  LET n1 == [n EXCEPT !.pollingIntervalMs = ms]
  IN  IF n1.isPolling THEN StartPolling(StopPolling(n1)) ELSE n1

\* getStatus()
GetStatus(n) ==
  [isPolling |-> n.isPolling,
   isSSEConnected |-> n.eventSource # NoSource
                      /\ n.sources[n.eventSource] = "open",
   isSSESupported |-> n.isSSESupported,
   pollingInterval |-> n.pollingIntervalMs,
   lastEventId |-> n.lastEventId]

\* ----------------------------------------------------------- useNotifications
\* the components that call useNotifications()
Consumers == {1, 2}
\* handleNotificationEvent of consumer c: a listener function of its own
Handler(c) == 10 + c
\* no unsubscribe closure held
NoReg == 0
\* .slice(-100)
BufferCap == 100

\* the state of a hook instance: useState defaults, useAuth's isAuthenticated,
\* the unsubscribe closure its effect holds; nDistinct and nAgain count, where
\* events arrive numbered, the distinct ids handled and the arrivals of ids
\* that had been evicted. readEventIds and serviceStatus, which only the
\* display reads, are left out.
NewHook ==
  [mounted |-> FALSE, isAuthenticated |-> FALSE, notifications |-> <<>>,
   isConnected |-> FALSE, unsubscribe |-> NoReg,
   nDistinct |-> 0, nAgain |-> 0]

\* SliceLast keeping the oldest entries: list.slice(0, k)
SliceFirst(list, k) ==
  IF Len(list) > k THEN SubSeq(list, 1, k) ELSE list

\* list.slice(-k)
SliceLast(list, k) ==
  IF Len(list) > k THEN SubSeq(list, Len(list) - k + 1, Len(list)) ELSE list

\* prev.some(n => n.event_id === id)
Holds(list, id) == \E i \in 1..Len(list) : list[i].event_id = id

\* handleNotificationEvent(event) on the hook state h
HandleNotificationEvent(h, event) ==
  [h EXCEPT
     !.notifications =
        IF Holds(@, event.event_id) THEN @
        ELSE SliceLast(Append(@, event), BufferCap),
     !.isConnected = TRUE]

\* clearNotifications()
ClearNotifications(h) == [h EXCEPT !.notifications = <<>>]

\* the listener calls a dispatch made
NewCalls(n, n1) == SubSeq(n1.invoked, Len(n.invoked) + 1, Len(n1.invoked))

\* the listener calls that are calls of a hook's handler, applied in order
RECURSIVE Delivered(_, _, _)
Delivered(h, called, i) ==
  IF i > Len(called) THEN h
  ELSE Delivered(
         IF \E c \in Consumers : Handler(c) = called[i].fn
         THEN LET c == CHOOSE c \in Consumers : Handler(c) = called[i].fn
              IN  [h EXCEPT ![c] = HandleNotificationEvent(@, called[i].event)]
         ELSE h,
         called, i + 1)

\* ------------------------------------------------------------------ session
\* localStorage and the location of a logged-in user; n401 counts the
\* responses with status 401 the page has received
NewSession ==
  [access_token |-> TRUE, user |-> TRUE, href |-> "/", n401 |-> 0]

\* the response interceptor of the axios client on status 401
OnUnauthorized(ss) ==
  [ss EXCEPT !.access_token = FALSE, !.user = FALSE, !.href = "/login",
             !.n401 = @ + 1]

\* ---------------------------------------------- NotificationService actions
\* a public method is called by a consumer
Call(n1) ==
  /\ notify.nApi < MaxApi
  /\ notify' = [n1 EXCEPT !.nApi = @ + 1]
  /\ UNCHANGED <<appVars, hooks>>

CallStart == Call(Start(notify))
CallStop == Call(Stop(notify))
CallStartPolling == Call([StartPolling(notify) EXCEPT !.stopped = FALSE])
CallStopPolling == Call(StopPolling(notify))
CallStartSSE(token) ==
  Call([StartSSE(notify, token) EXCEPT !.stopped = FALSE])
CallStopSSE == Call(StopSSE(notify))
CallSetPollingInterval(ms) == Call(SetPollingInterval(notify, ms))

\* a scheduled setInterval timer fires: poll()
TimerFires(t) ==
  /\ notify.nPolls < MaxPolls
  /\ t \in notify.intervals
  /\ notify' = Poll(notify)
  /\ UNCHANGED <<appVars, hooks>>

\* a notification fetch is answered
PollAnswered(events) ==
  /\ Len(notify.answered) < MaxAnswers
  /\ notify.inflight > 0
  /\ notify' = Forget(OnPollResponse(notify, events), 1)
  /\ hooks' = Delivered(hooks, NewCalls(notify, notify'), 1)
  /\ UNCHANGED appVars

\* a notification fetch fails
PollFails ==
  /\ notify.inflight > 0
  /\ notify' = Forget(OnPollError(notify), 1)
  /\ UNCHANGED <<appVars, hooks>>

\* the server makes a notification event
ServerEvent ==
  /\ notify.server < MaxServer
  /\ notify' = [notify EXCEPT !.server = @ + 1]
  /\ UNCHANGED <<appVars, hooks>>

\* the recent events of a server that has k events, the oldest first
ServerBatch(k) == [i \in 1..k |-> NumberedEvent(i)]

\* the fetch at place i of those awaited is answered with the events the
\* server had when it was issued
PollReturns(i) ==
  /\ i \in 1..Len(notify.snapshots)
  /\ notify' = Forget(
                 OnPollResponse(notify, ServerBatch(notify.snapshots[i])), i)
  /\ hooks' = Delivered(hooks, NewCalls(notify, notify'), 1)
  /\ UNCHANGED appVars

\* the 1-second timeout set by onerror fires: startPolling()
FallbackFires ==
  /\ notify.timeouts > 0
  /\ notify' = StartPolling([notify EXCEPT !.timeouts = @ - 1])
  /\ UNCHANGED <<appVars, hooks>>

\* the connection of EventSource k is established: onopen
SSEOpens(k) ==
  /\ k \in 1..Len(notify.sources)
  /\ notify.sources[k] = "connecting"
  /\ notify' = [notify EXCEPT !.sources[k] = "open"]
  /\ UNCHANGED <<appVars, hooks>>

\* EventSource k delivers a message: onmessage
SSEMessage(k, data) ==
  /\ notify.nMsgs < MaxMsgs
  /\ k \in 1..Len(notify.sources)
  /\ notify.sources[k] = "open"
  /\ notify' = OnSSEMessage(notify, data)
  /\ hooks' = Delivered(hooks, NewCalls(notify, notify'), 1)
  /\ UNCHANGED appVars

\* EventSource k reports an error: it goes back to connecting, or is closed
\* for good when the error is fatal; then onerror runs
SSEError(k, fatal) ==
  /\ notify.nErrors < MaxErrors
  /\ k \in 1..Len(notify.sources)
  /\ notify.sources[k] \in {"connecting", "open"}
  /\ notify' = OnSSEError([notify EXCEPT
                 !.sources[k] = IF fatal THEN "closed" ELSE "connecting"])
  /\ UNCHANGED <<appVars, hooks>>

\* a consumer calls subscribe(type, fn)
CallSubscribe(type, fn) ==
  /\ Len(notify.unsubs) < MaxRegs
  /\ notify' = Subscribe(notify, type, fn)
  /\ UNCHANGED <<appVars, hooks>>

\* a consumer calls subscribeAll(fn)
CallSubscribeAll(fn) ==
  /\ Len(notify.unsubs) < MaxRegs
  /\ notify' = SubscribeAll(notify, fn)
  /\ UNCHANGED <<appVars, hooks>>

\* a consumer calls the unsubscribe closure it got from subscribe call reg
CallUnsubscribe(reg) ==
  /\ reg \in 1..Len(notify.unsubs)
  /\ notify.unsubs[reg].calls < MaxUnsubs
  /\ notify' = Unsubscribe(notify, reg)
  /\ UNCHANGED <<appVars, hooks>>

\* the first startSSE() of a logged-in consumer
Connect ==
  /\ notify.sources = <<>>
  /\ CallStartSSE(TRUE)

\* EventSource k delivers a notification event: onmessage
PushEvent(k, event) ==
  /\ Len(notify.dispatched) < MaxEvents
  /\ k \in 1..Len(notify.sources)
  /\ notify.sources[k] = "open"
  /\ notify' = OnSSEMessage(
                 notify, SSEMsg(TRUE, "", event.event_id, event.event_type))
  /\ hooks' = Delivered(hooks, NewCalls(notify, notify'), 1)
  /\ UNCHANGED appVars

\* -------------------------------------------------- useNotifications actions
\* a component that calls useNotifications() mounts: useAuth starts
\* unauthenticated, so the effect stops the service and clears
Mount(c) ==
  /\ ~hooks[c].mounted
  /\ notify' = Stop(notify)
  /\ hooks' = [hooks EXCEPT ![c] = [NewHook EXCEPT !.mounted = TRUE]]
  /\ UNCHANGED appVars

\* useAuth of consumer c finds the stored token valid, or logs in: the
\* effect runs again, subscribes the handler and starts the service
AuthResolved(c) ==
  /\ hooks[c].mounted
  /\ ~hooks[c].isAuthenticated
  /\ session.access_token
  /\ Len(notify.unsubs) < MaxRegs
  /\ notify' = Start(SubscribeAll(notify, Handler(c)))
  /\ hooks' = [hooks EXCEPT ![c].isAuthenticated = TRUE,
                            ![c].unsubscribe = Len(notify.unsubs) + 1]
  /\ UNCHANGED appVars

\* useAuth of consumer c becomes unauthenticated (logout, failed refresh):
\* the cleanup of the effect unsubscribes, then the effect stops the service
\* and clears
AuthLost(c) ==
  /\ hooks[c].mounted
  /\ hooks[c].isAuthenticated
  /\ notify' = Stop(Unsubscribe(notify, hooks[c].unsubscribe))
  /\ hooks' = [hooks EXCEPT
                 ![c] = [ClearNotifications(@) EXCEPT
                           !.isAuthenticated = FALSE,
                           !.isConnected = FALSE,
                           !.unsubscribe = NoReg]]
  /\ UNCHANGED appVars

\* the component of consumer c unmounts: the cleanups of both effects run
Unmount(c) ==
  /\ hooks[c].mounted
  /\ notify' = Stop(IF hooks[c].unsubscribe # NoReg
                    THEN Unsubscribe(notify, hooks[c].unsubscribe)
                    ELSE notify)
  /\ hooks' = [hooks EXCEPT ![c] = NewHook]
  /\ UNCHANGED appVars

\* the service calls the handler of consumer c with the event numbered i: a
\* new one, or one it was handed before
Arrives(c, i) ==
  /\ hooks[c].unsubscribe # NoReg
  /\ i \in 1..(hooks[c].nDistinct + 1)
  /\ i <= MaxArrivals
  /\ LET again == /\ i <= hooks[c].nDistinct
                   /\ ~Holds(hooks[c].notifications, IdText(i))
     IN  /\ again => hooks[c].nAgain < MaxAgain
         /\ hooks' = [hooks EXCEPT
                        ![c] = [HandleNotificationEvent(@, NumberedEvent(i))
                                  EXCEPT
                                  !.nDistinct = IF i > @ THEN i ELSE @,
                                  !.nAgain = IF again THEN @ + 1 ELSE @]]
  /\ UNCHANGED <<appVars, notify>>

\* the events the push channel delivers to subscribed listeners
TypedEvents == {NotificationEvent(<<"1">>, t) : t \in NotificationTypes}

\* the answers the server may give to a notification fetch
Batches == UNION {[1..m -> Events] : m \in 0..MaxBatch}

\* ----------------------------------------------------------- specifications
\* useChat as mounted
Mounted ==
  /\ messages = <<>>
  /\ currentConversation = NoConv
  /\ isLoading = FALSE
  /\ reloads = 0
  /\ now = ClockBase
  /\ nSends = 0
  /\ calls = [s \in Slots |-> IdleCall]
  /\ conversations = {}
  /\ pending = <<>>
  /\ nOps = 0

\* the page as loaded by a logged-in user, no notification consumer mounted
\* yet
Loaded ==
  /\ session = NewSession
  /\ hooks = [c \in Consumers |-> NewHook]

Init ==
  /\ Mounted
  /\ Loaded
  /\ notify = NewService(TRUE)

Stream(s) ==
  \/ \E e \in {"fetch_rejected", "http_error", "no_body"} : FetchFails(s, e)
  \/ \E n \in 1..(Len(calls[s].body) - calls[s].pos) : Read(s, n)
  \/ ReadDone(s)
  \/ ReadFails(s)

\* one send from the freshly mounted hook, made at the first clock value,
\* bodies of up to MaxLines lines
Next ==
  \/ /\ \E s \in Slots, i \in Inputs, t2 \in ClockBase..MaxClock :
          Send(s, i, now, t2, 1)
     /\ UNCHANGED <<listVars, sideVars>>
  \/ /\ \E s \in Slots :
          /\ calls[s].pc = "fetching"
          /\ \E b \in Bodies(calls[s].no, MaxLines) : FetchOk(s, b)
     /\ UNCHANGED <<listVars, sideVars>>
  \/ /\ \E s \in Slots : Stream(s)
     /\ UNCHANGED <<listVars, sideVars>>

Spec == Init /\ [][Next]_vars

\* a session of up to MaxSends sends, bodies of up to SessLines lines
NextSession ==
  \/ /\ \E s \in Slots, i \in Inputs, t1, t2 \in ClockBase..MaxClock :
          Send(s, i, t1, t2, MaxSends)
     /\ UNCHANGED <<listVars, sideVars>>
  \/ /\ \E s \in Slots :
          /\ calls[s].pc = "fetching"
          /\ \E b \in Bodies(calls[s].no, SessLines) : FetchOk(s, b)
     /\ UNCHANGED <<listVars, sideVars>>
  \/ /\ \E s \in Slots : Stream(s)
     /\ UNCHANGED <<listVars, sideVars>>

SpecSession == Init /\ [][NextSession]_vars

\* a send on the chat screen, made at the current clock value
SendUI(limit) ==
  /\ \E s \in Slots, i \in Inputs, t2 \in ClockBase..MaxClock :
       Send(s, i, now, t2, limit)
  /\ UNCHANGED <<listVars, sideVars>>

\* the server replies well-formed
FetchOkUI ==
  /\ \E s \in Slots :
       /\ calls[s].pc = "fetching"
       /\ \E b \in Replies(calls[s].no, UILines) : FetchOk(s, b)
  /\ UNCHANGED <<listVars, sideVars>>

\* a step of a stream whose reads deliver what is left of the body; a
\* completion that adopts its conversation calls loadConversations()
StreamUI ==
  /\ \E s \in Slots :
       \/ \E e \in {"fetch_rejected", "http_error", "no_body"} :
            FetchFails(s, e)
       \/ Read(s, Len(calls[s].body) - calls[s].pos)
       \/ ReadDone(s)
       \/ ReadFails(s)
  /\ pending' = IF reloads' > reloads
                THEN Append(pending, Request("list", NoConv, NoConv))
                ELSE pending
  /\ UNCHANGED <<conversations, nOps, sideVars>>

\* the chat screen: sends and clicks on the conversation list, in any order
NextUI ==
  \/ SendUI(MaxSends)
  \/ FetchOkUI
  \/ StreamUI
  \/ \E id \in ConvIds : SelectConversation(id) /\ UNCHANGED sideVars
  \/ \E i \in 1..Len(pending) :
       /\ pending[i].kind = "history"
       /\ \E h \in Histories(pending[i].conv) : HistoryLoaded(i, h)
       /\ UNCHANGED sideVars
  \/ \E i \in 1..Len(pending) : HistoryFails(i) /\ UNCHANGED sideVars
  \/ CreateNewConversation /\ UNCHANGED sideVars
  \/ \E i \in 1..Len(pending), id \in ConvIds :
       ConversationCreated(i, id) /\ UNCHANGED sideVars
  \/ \E id \in ConvIds : DeleteConversation(id) /\ UNCHANGED sideVars
  \/ \E i \in 1..Len(pending) : ConversationDeleted(i) /\ UNCHANGED sideVars
  \/ \E i \in 1..Len(pending), list \in SUBSET ConvIds :
       ConversationsLoaded(i, list) /\ UNCHANGED sideVars
  \/ \E i \in 1..Len(pending) : RequestFails(i) /\ UNCHANGED sideVars

SpecUI == Init /\ [][NextUI]_vars

\* one send on a screen where conversations are made with the "new
\* conversation" button, before or while the send runs
NextAdopt ==
  \/ SendUI(1)
  \/ FetchOkUI
  \/ StreamUI
  \/ CreateNewConversation /\ UNCHANGED sideVars
  \/ \E i \in 1..Len(pending), id \in ConvIds :
       ConversationCreated(i, id) /\ UNCHANGED sideVars
  \/ \E i \in 1..Len(pending), list \in SUBSET ConvIds :
       ConversationsLoaded(i, list) /\ UNCHANGED sideVars
  \/ \E i \in 1..Len(pending) : RequestFails(i) /\ UNCHANGED sideVars

SpecAdopt == Init /\ [][NextAdopt]_vars

\* fetch() of /chat/send-stream is answered with status 401: response.ok is
\* false
FetchUnauthorized(s) ==
  /\ FetchFails(s, "http_error")
  /\ session' = [session EXCEPT !.n401 = @ + 1]
  /\ UNCHANGED <<listVars, notify, hooks>>

\* a request of the axios client is answered with status 401: the response
\* interceptor runs, then the catch of the caller
RequestUnauthorized(i) ==
  /\ RequestFails(i) \/ HistoryFails(i)
  /\ session' = OnUnauthorized(session)
  /\ UNCHANGED <<notify, hooks>>

\* the screen of NextAdopt with a server that may answer any request with
\* status 401
NextAuth ==
  \/ SendUI(1)
  \/ FetchOkUI
  \/ StreamUI
  \/ \E s \in Slots : FetchUnauthorized(s)
  \/ CreateNewConversation /\ UNCHANGED sideVars
  \/ \E i \in 1..Len(pending), id \in ConvIds :
       ConversationCreated(i, id) /\ UNCHANGED sideVars
  \/ \E i \in 1..Len(pending), list \in SUBSET ConvIds :
       ConversationsLoaded(i, list) /\ UNCHANGED sideVars
  \/ \E i \in 1..Len(pending) : RequestFails(i) /\ UNCHANGED sideVars
  \/ \E i \in 1..Len(pending) : RequestUnauthorized(i)

SpecAuth == Init /\ [][NextAuth]_vars

\* the notification service: its public methods called in any order, the
\* timers, the fetches and the push channel of its runtime
InitNotify ==
  /\ Mounted
  /\ Loaded
  /\ notify \in {NewService(supported) : supported \in BOOLEAN}

NextNotify ==
  \/ CallStart
  \/ CallStop
  \/ CallStartPolling
  \/ CallStopPolling
  \/ \E token \in BOOLEAN : CallStartSSE(token)
  \/ CallStopSSE
  \/ \E ms \in {1000, 5000} : CallSetPollingInterval(ms)
  \/ \E t \in notify.intervals : TimerFires(t)
  \/ /\ notify.inflight > 0 /\ Len(notify.answered) < MaxAnswers
     /\ \E events \in Batches : PollAnswered(events)
  \/ PollFails
  \/ FallbackFires
  \/ \E k \in 1..Len(notify.sources) : SSEOpens(k)
  \/ \E k \in 1..Len(notify.sources), data \in SSEData : SSEMessage(k, data)
  \/ \E k \in 1..Len(notify.sources), fatal \in BOOLEAN : SSEError(k, fatal)

SpecNotify == InitNotify /\ [][NextNotify]_vars

\* the same with the runtime running a due timeout callback in the end
SpecNotifyLive == SpecNotify /\ WF_vars(FallbackFires)

\* the notification service without the answers to its fetches (they touch
\* lastEventId and the dispatches alone): the calls of its public methods,
\* its timers and its push channel
NextFallback ==
  \/ CallStart
  \/ CallStop
  \/ CallStartPolling
  \/ CallStopPolling
  \/ \E token \in BOOLEAN : CallStartSSE(token)
  \/ CallStopSSE
  \/ \E ms \in {1000, 5000} : CallSetPollingInterval(ms)
  \/ \E t \in notify.intervals : TimerFires(t)
  \/ PollFails
  \/ FallbackFires
  \/ \E k \in 1..Len(notify.sources) : SSEOpens(k)
  \/ \E k \in 1..Len(notify.sources), data \in SSEData : SSEMessage(k, data)
  \/ \E k \in 1..Len(notify.sources), fatal \in BOOLEAN : SSEError(k, fatal)

SpecFallback ==
  InitNotify /\ [][NextFallback]_vars /\ WF_vars(FallbackFires)

\* the subscriptions of the service: consumers subscribe and unsubscribe
NextListeners ==
  \/ \E t \in NotificationTypes, fn \in Fns : CallSubscribe(t, fn)
  \/ \E fn \in Fns : CallSubscribeAll(fn)
  \/ \E reg \in 1..Len(notify.unsubs) : CallUnsubscribe(reg)

SpecListeners == Init /\ [][NextListeners]_vars

\* the polling of the service with a listener subscribed: starts and stops,
\* timer ticks, fetches that are answered with one event and fetches that
\* fail
NextPolling ==
  \/ CallSubscribeAll(1)
  \/ CallStart
  \/ CallStop
  \/ \E t \in notify.intervals : TimerFires(t)
  \/ /\ notify.inflight > 0 /\ Len(notify.answered) < MaxAnswers
     /\ \E e \in Events : PollAnswered(<<e>>)
  \/ PollFails

SpecPolling == Init /\ [][NextPolling]_vars

\* the polling of the service against a server whose list of recent events
\* grows: fetches overlap when the timer ticks or polling is restarted while
\* one is awaited, and are answered in any order
NextOverlap ==
  \/ CallStart
  \/ CallStop
  \/ \E ms \in {1000, 5000} : CallSetPollingInterval(ms)
  \/ \E t \in notify.intervals : TimerFires(t)
  \/ ServerEvent
  \/ \E i \in 1..Len(notify.snapshots) : PollReturns(i)
  \/ PollFails

SpecOverlap == Init /\ [][NextOverlap]_vars

\* consumers subscribe while the push channel delivers events
NextDispatch ==
  \/ \E t \in NotificationTypes, fn \in Fns : CallSubscribe(t, fn)
  \/ \E fn \in Fns : CallSubscribeAll(fn)
  \/ Connect
  \/ \E k \in 1..Len(notify.sources) : SSEOpens(k)
  \/ \E k \in 1..Len(notify.sources), e \in TypedEvents : PushEvent(k, e)

SpecDispatch == Init /\ [][NextDispatch]_vars

\* one consumer of useNotifications and the events its handler is handed
NextBuffer ==
  \/ Mount(1)
  \/ AuthResolved(1)
  \/ \E i \in 1..MaxArrivals : Arrives(1, i)

SpecBuffer == Init /\ [][NextBuffer]_vars

\* the consumers of useNotifications on the singleton service: they mount,
\* authenticate and unmount while the service polls and the push channel
\* delivers (the answers to the fetches left out)
NextHooks ==
  \/ \E c \in Consumers : Mount(c)
  \/ \E c \in Consumers : AuthResolved(c)
  \/ \E c \in Consumers : AuthLost(c)
  \/ \E c \in Consumers : Unmount(c)
  \/ \E t \in notify.intervals : TimerFires(t)
  \/ PollFails
  \/ Connect
  \/ \E k \in 1..Len(notify.sources) : SSEOpens(k)
  \/ \E k \in 1..Len(notify.sources), e \in TypedEvents : PushEvent(k, e)

SpecHooks == Init /\ [][NextHooks]_vars

\* ------------------------------------------------- reference definitions
\* The text a call has read so far.
Received(c) == SubSeq(c.body, 1, c.pos)

\* Lines of a text, found by one scan over its characters:
\* [lines: the newline-terminated lines, rest: what follows the last newline]
RECURSIVE Scan(_, _, _, _)
Scan(text, i, cur, acc) ==
  IF i > Len(text) THEN [lines |-> acc, rest |-> cur]
  ELSE IF text[i] = NL THEN Scan(text, i + 1, <<>>, Append(acc, cur))
  ELSE Scan(text, i + 1, Append(cur, text[i]), acc)

RefLines(text) == Scan(text, 1, <<>>, <<>>)

IsDataLine(line) == StartsWith(line, Prefix)
IsFrame(line) == IsDataLine(line) /\ ParseJSON(Slice(line, Len(Prefix))).ok
FrameData(line) == ParseJSON(Slice(line, Len(Prefix))).data
IsFinishedFrame(line) == IsFrame(line) /\ FrameData(line).finished

\* the lines up to and including the first finished frame
RECURSIVE UpToFinished(_)
UpToFinished(lines) ==
  IF lines = <<>> THEN <<>>
  ELSE IF IsFinishedFrame(lines[1]) THEN <<lines[1]>>
  ELSE <<lines[1]>> \o UpToFinished(Tail(lines))

\* the payloads of the valid frames among the lines, in order
RECURSIVE Payloads(_)
Payloads(lines) ==
  IF lines = <<>> THEN <<>>
  ELSE IF IsFrame(lines[1])
       THEN <<FrameData(lines[1])>> \o Payloads(Tail(lines))
       ELSE Payloads(Tail(lines))

\* the chunks of a callback log, in order
RECURSIVE ChunksOf(_)
ChunksOf(log) ==
  IF log = <<>> THEN <<>>
  ELSE IF log[1].cb = "chunk" THEN <<log[1].data>> \o ChunksOf(Tail(log))
  ELSE ChunksOf(Tail(log))

Terminals(log) == {i \in 1..Len(log) : log[i].cb \in {"complete", "error"}}
Errors(log) == {i \in 1..Len(log) : log[i].cb = "error"}
FailureEndings == {"fetch_rejected", "http_error", "no_body", "read_failed"}
\* the fetch answered OK with a body, so the read loop was entered
Streaming(c) ==
  /\ c.pc \in {"reading", "returned"}
  /\ c.ending \notin {"fetch_rejected", "http_error", "no_body"}

\* ------------------------------------------------------------------ claims

\* C1: every call of ApiService.sendStreamMessage that has returned invoked
\* exactly one terminal callback (onComplete or onError), whichever way the
\* stream ended.
C1_ExactlyOneTerminal ==
  \A s \in Slots :
    calls[s].pc = "returned" => Cardinality(Terminals(calls[s].log)) = 1

\* C2: a chunk with finished = true is handed to onChunk, onComplete follows
\* it at once and is the last callback of the stream; the lines after the
\* finished frame are not processed; onComplete never comes without a
\* finished chunk right before it.
C2_FinishedCompletesOnce ==
  \A s \in Slots :
    LET c == calls[s] IN
    /\ \A i \in 1..Len(c.log) :
         /\ (c.log[i].cb = "chunk" /\ c.log[i].data.finished)
              => (i + 1 = Len(c.log) /\ c.log[i + 1].cb = "complete")
         /\ c.log[i].cb = "complete"
              => (i = Len(c.log) /\ i > 1 /\ c.log[i - 1].cb = "chunk"
                  /\ c.log[i - 1].data.finished)
    /\ \A i \in 1..Len(c.fed) :
         IsFinishedFrame(c.fed[i])
           => /\ i = Len(c.fed)
              /\ c.pc = "returned" /\ c.ending = "finished"
              /\ Len(c.log) >= 2
              /\ c.log[Len(c.log) - 1] = Event("chunk", FrameData(c.fed[i]))

\* C2 witness: a stream completed by a finished frame while the same read
\* held further complete lines and the body held further unread data.
C2_Witness ==
  \E s \in Slots :
    LET c == calls[s] IN
    /\ c.ending = "finished"
    /\ Len(RefLines(Received(c)).lines) > Len(c.fed)
    /\ \E i \in 1..Len(RefLines(Received(c)).lines) :
         i > Len(c.fed) /\ IsFrame(RefLines(Received(c)).lines[i])

\* C3: onError fires at most once per stream and is then the last callback;
\* it fires when the status is not OK, when there is no readable body and
\* when a read fails; a stream that met onError never met onComplete.
C3_ErrorOnceAndLast ==
  \A s \in Slots :
    LET c == calls[s] IN
    /\ Cardinality(Errors(c.log)) <= 1
    /\ \A i \in Errors(c.log) :
         i = Len(c.log) /\ c.pc = "returned" /\ c.ending \in FailureEndings
    /\ c.ending \in FailureEndings => Cardinality(Errors(c.log)) = 1
    /\ Errors(c.log) # {} => \A i \in 1..Len(c.log) : c.log[i].cb # "complete"

\* C3 witness: a read fails after a chunk was delivered and with frames still
\* unread.
C3_Witness ==
  \E s \in Slots :
    LET c == calls[s] IN
    /\ c.ending = "read_failed"
    /\ Len(c.log) >= 2
    /\ c.pos < Len(c.body)

\* C4: the lines handed to the frame parser depend on the text read so far
\* and not on how it was cut into reads: they are its newline-terminated
\* lines, in order (up to the finished frame once one was met), and the
\* partial trailing line is what the carry-over buffer holds.
C4_LinesIndependentOfCuts ==
  \A s \in Slots :
    LET c   == calls[s]
        ref == RefLines(Received(c))
    IN  Streaming(c) =>
          IF c.ending = "finished"
          THEN c.fed = UpToFinished(ref.lines)
          ELSE c.fed = ref.lines /\ c.buffer = ref.rest

\* C4 witness: a frame was emitted and the first part of the next frame,
\* cut inside its payload, is held back in the carry-over buffer.
C4_Witness ==
  \E s \in Slots :
    LET c == calls[s] IN
    /\ c.pc = "reading"
    /\ Len(c.fed) = 1 /\ IsFrame(c.fed[1])
    /\ Len(c.buffer) > Len(Prefix) /\ StartsWith(c.buffer, Prefix)
    /\ c.pos < Len(c.body)

\* C5: when the stream ends with a non-empty carry-over buffer, the buffer is
\* processed as a final line.
C5_FinalLineFlushed ==
  \A s \in Slots :
    LET c == calls[s] IN
    (c.pc = "returned" /\ c.ending = "closed" /\ c.buffer # <<>>)
      => (c.fed # <<>> /\ c.fed[Len(c.fed)] = c.buffer)

\* C6: lines that are no valid frame cause no callback and do not end the
\* stream: the chunks delivered are exactly the payloads of the valid frames
\* among the complete lines read, in arrival order, and onError is owed to a
\* failed read alone.
C6_BadLinesSkipped ==
  \A s \in Slots :
    LET c   == calls[s]
        ref == RefLines(Received(c))
    IN  Streaming(c) =>
          /\ ChunksOf(c.log) = Payloads(UpToFinished(ref.lines))
          /\ Errors(c.log) # {} => c.ending = "read_failed"
          /\ (c.pc = "returned" /\ c.ending = "read_failed")
               => Len(c.log) = Len(ChunksOf(c.log)) + 1

\* C6 witness: a data line with bad JSON, a line without the prefix or an
\* empty line came first and the valid frame after it was delivered.
C6_Witness ==
  \E s \in Slots :
    LET c == calls[s] IN
    /\ c.pc = "reading"
    /\ Len(c.fed) = 2
    /\ IsDataLine(c.fed[1]) /\ ~IsFrame(c.fed[1])
    /\ IsFrame(c.fed[2])
    /\ c.log = <<Event("chunk", FrameData(c.fed[2]))>>

\* the value a field has after the chunks: the last one present, else init
RECURSIVE LastPresent(_, _)
LastPresent(init, values) ==
  IF values = <<>> THEN init
  ELSE IF values[Len(values)] # 0 THEN values[Len(values)]
  ELSE LastPresent(init, SubSeq(values, 1, Len(values) - 1))

\* C8: each captured metadata value is the one of the last chunk that
\* carried the field; a chunk without the field leaves it as it was.
C8_LatestWins ==
  \A s \in Slots :
    LET c  == calls[s]
        ch == ChunksOf(c.log)
    IN  c.pc # "idle" =>
          /\ c.finalConversationId =
               LastPresent(c.sendConv,
                           [i \in 1..Len(ch) |-> ch[i].conversation_id])
          /\ c.finalUserMessageId =
               LastPresent(NoId, [i \in 1..Len(ch) |-> ch[i].user_message_id])
          /\ c.finalAssistantMessageId =
               LastPresent(NoId,
                           [i \in 1..Len(ch) |-> ch[i].assistant_message_id])

\* C8 witness: a second chunk replaced both message ids and carried no
\* conversation id, so the conversation id of the first chunk stayed.
C8_Witness ==
  \E s \in Slots :
    LET c  == calls[s]
        ch == ChunksOf(c.log)
    IN  /\ Len(ch) = 2
        /\ ch[1].user_message_id # NoId /\ ch[2].user_message_id # NoId
        /\ ch[1].user_message_id # ch[2].user_message_id
        /\ ch[1].conversation_id # NoConv /\ ch[2].conversation_id = NoConv
        /\ c.finalUserMessageId = ch[2].user_message_id
        /\ c.finalConversationId = ch[1].conversation_id

\* the concatenation of the content fields of the chunks, in order
RECURSIVE ConcatContent(_)
ConcatContent(chunks) ==
  IF chunks = <<>> THEN <<>>
  ELSE chunks[1].content \o ConcatContent(Tail(chunks))

\* C7: while a send is streaming, its assistant placeholder holds the
\* concatenation, in arrival order, of the contents of the chunks delivered
\* so far, and the content of no other message has changed since the send.
C7_ContentIsConcatenation ==
  \A s \in Slots :
    LET c == calls[s]
        n == Len(c.before)
    IN  c.pc = "reading" =>
          /\ Len(messages) = n + 2
          /\ messages[n + 2].id = c.tempAssistantId
          /\ messages[n + 2].content = ConcatContent(ChunksOf(c.log))
          /\ messages[n + 1].content = c.text
          /\ \A i \in 1..n : messages[i].content = c.before[i].content

\* C9: no two messages of the list have the same id.
C9_UniqueIds ==
  \A i, j \in 1..Len(messages) :
    i # j => messages[i].id # messages[j].id

\* C10: after a send completed, its user message carries the server
\* user_message_id if one was received and its assistant message the server
\* assistant_message_id if one was received, both with the role, content and
\* position they had, and the messages that were in the list before the send
\* are as they were.
C10_Reconciled ==
  \A s \in Slots :
    LET c == calls[s]
        n == Len(c.before)
    IN  (c.pc = "returned" /\ c.ending = "finished") =>
          /\ Len(messages) = n + 2
          /\ SubSeq(messages, 1, n) = c.before
          /\ messages[n + 1].id =
               (IF c.finalUserMessageId # NoId
                THEN c.finalUserMessageId ELSE c.userMessageId)
          /\ messages[n + 1].role = "user"
          /\ messages[n + 1].content = c.text
          /\ messages[n + 2].id =
               (IF c.finalAssistantMessageId # NoId
                THEN c.finalAssistantMessageId ELSE c.tempAssistantId)
          /\ messages[n + 2].role = "assistant"
          /\ messages[n + 2].content = ConcatContent(ChunksOf(c.log))

\* C11: when a send has completed, its user message and its assistant
\* message both carry the final resolved conversation id, whether or not the
\* stream brought a server user_message_id or assistant_message_id.
C11_BothCarryFinalConversation ==
  \A s \in Slots :
    LET c == calls[s]
        n == Len(c.before)
    IN  (c.pc = "returned" /\ c.ending = "finished") =>
          /\ Len(messages) = n + 2
          /\ messages[n + 1].conversation_id = c.finalConversationId
          /\ messages[n + 2].conversation_id = c.finalConversationId

\* C12: the step that completes a send adopts the resolved conversation id
\* as currentConversation and calls loadConversations() once if no
\* conversation was current when the send started and an id was resolved;
\* otherwise it leaves currentConversation as it is and calls no reload.
C12_AdoptionOnCompletion ==
  [][\A s \in Slots :
       (calls[s].pc = "reading" /\ calls'[s].ending = "finished") =>
         IF calls[s].sendConv = NoConv
            /\ calls'[s].finalConversationId # NoConv
         THEN /\ currentConversation' = calls'[s].finalConversationId
              /\ reloads' = reloads + 1
         ELSE /\ currentConversation' = currentConversation
              /\ reloads' = reloads]_vars

\* C12 witness: a send started in a conversation made before it completed
\* with another resolved conversation id; the conversation of the send is
\* still current and the one reload is that of createNewConversation.
C12_Witness ==
  \E s \in Slots :
    LET c == calls[s] IN
    /\ c.pc = "returned" /\ c.ending = "finished"
    /\ c.sendConv # NoConv
    /\ c.finalConversationId # NoConv
    /\ c.finalConversationId # c.sendConv
    /\ currentConversation = c.sendConv
    /\ reloads = 1

\* C13: when the error callback has fired for a send, the message list is
\* the list as it was immediately before the send: the user message and the
\* assistant placeholder of the send are gone and nothing else is.
C13_RollbackRestoresList ==
  \A s \in Slots :
    LET c == calls[s] IN
    (c.pc = "returned" /\ c.ending \in FailureEndings) => messages = c.before

\* C14: a send whose stream delivers a chunk with the error field set as its
\* first event ends failed: once the call has returned, neither the user
\* message nor the assistant placeholder of the send is in the list and
\* onComplete was not called.
C14_ErrorChunkFailsSend ==
  \A s \in Slots :
    LET c == calls[s] IN
    (c.pc = "returned" /\ c.log # <<>>
       /\ c.log[1].cb = "chunk" /\ c.log[1].data.error)
      => /\ \A i \in 1..Len(messages) :
              messages[i].id \notin {c.userMessageId, c.tempAssistantId}
         /\ \A i \in 1..Len(c.log) : c.log[i].cb # "complete"

\* C15: while a send is outstanding (its fetch not answered or its stream
\* not yet completed, failed or closed) isLoading is true, and no second send
\* is outstanding with it, whatever is clicked on the conversation list.
C15_LoadingWhileOutstanding ==
  LET outstanding == {s \in Slots : calls[s].pc \in {"fetching", "reading"}}
  IN  /\ outstanding # {} => isLoading
      /\ Cardinality(outstanding) <= 1

\* the EventSource objects that are not closed
LiveSources(n) == {k \in 1..Len(n.sources) : n.sources[k] # "closed"}

\* C16: whatever public methods are called, at most one polling timer is
\* scheduled and at most one push connection is open: a start of a strategy
\* that is started already adds no timer and no connection.
C16_AtMostOneTimerAndConnection ==
  /\ Cardinality(notify.intervals) <= 1
  /\ Cardinality(LiveSources(notify)) <= 1

\* C17: polling is never active while the push connection is open.
C17_StrategiesExclusive ==
  ~(GetStatus(notify).isPolling /\ GetStatus(notify).isSSEConnected)

\* the dispatches made by polling
PollDispatches(n) ==
  SelectSeq(n.dispatched, LAMBDA d : d.by > 0)

\* C18: an event dispatched while a fetch is processed has an id greater
\* than every id dispatched while earlier fetches were processed.
C18_OnlyNewerDispatched ==
  LET d == PollDispatches(notify) IN
  \A i, j \in 1..Len(d) :
    d[i].by < d[j].by
      => StrGreater(d[j].event.event_id, d[i].event.event_id)

\* the greatest event id of a non-empty batch
MaxId(events) ==
  CHOOSE id \in {events[i].event_id : i \in 1..Len(events)} :
    \A i \in 1..Len(events) : ~StrGreater(events[i].event_id, id)

\* the batches processed so far that were not empty
NonEmptyAnswers(n) == SelectSeq(n.answered, LAMBDA b : b # <<>>)

\* C19: lastEventId is the greatest event id of the last non-empty batch
\* processed (the initial null when there was none), and no id dispatched
\* by polling is greater than it.
C19_WatermarkIsMax ==
  LET batches == NonEmptyAnswers(notify)
      d       == PollDispatches(notify)
  IN  /\ notify.lastEventId =
           (IF batches = <<>> THEN NoEvent
            ELSE MaxId(batches[Len(batches)]))
      /\ \A i \in 1..Len(d) :
           ~StrGreater(d[i].event.event_id, notify.lastEventId)

\* C20: the step in which the push channel reports an error closes and
\* dereferences the channel of the service, so that isSSEConnected is false,
\* and sets the fallback timeout; whenever a fallback timeout is pending,
\* polling becomes active.
C20_FallbackToPolling ==
  /\ [][notify'.nErrors > notify.nErrors =>
          /\ notify'.eventSource = NoSource
          /\ ~GetStatus(notify').isSSEConnected
          /\ notify.eventSource # NoSource
               => notify'.sources[notify.eventSource] = "closed"
          /\ notify'.timeouts = notify.timeouts + 1]_vars
  /\ (notify.timeouts > 0) ~> notify.isPolling

\* C20 witness: startSSE was the one method called, its connection was open
\* when it reported the error, and polling runs after the timeout fired.
C20_Witness ==
  /\ notify.nApi = 1
  /\ notify.nErrors = 1
  /\ Len(notify.sources) = 1 /\ notify.sources[1] = "closed"
  /\ notify.nMsgs = 1
  /\ notify.timeouts = 0
  /\ notify.isPolling

\* the calls triggerListeners makes for `event` on a listener array, in the
\* order of the array
CallsOf(list, event, d) ==
  [i \in 1..Len(list) |->
     [fn |-> list[i].fn, reg |-> list[i].reg, event |-> event, d |-> d]]

\* C21: the step that dispatches an event calls every listener subscribed
\* to the event's type once, in the order of registration, then every
\* all-events listener once, in the order of registration, and no other
\* listener; listeners that throw change nothing in this, and no exception
\* leaves triggerListeners.
C21_DispatchOrder ==
  [][Len(notify'.dispatched) = Len(notify.dispatched) + 1 =>
       LET d == Len(notify'.dispatched)
           event == notify'.dispatched[d].event
       IN  /\ notify'.invoked =
                notify.invoked
                  \o CallsOf(notify.listeners[event.event_type], event, d)
                  \o CallsOf(notify.globalListeners, event, d)
           /\ notify'.escaped = notify.escaped]_vars

\* C21 witness: one dispatch called a throwing listener of the event's
\* type, then another listener of that type, then an all-events listener.
C21_Witness ==
  \E i, j, k \in 1..Len(notify.invoked) :
    /\ i < j /\ j < k
    /\ notify.invoked[i].d = notify.invoked[j].d
    /\ notify.invoked[j].d = notify.invoked[k].d
    /\ notify.invoked[i].fn \in Throwing
    /\ notify.unsubs[notify.invoked[i].reg].type # AllTypes
    /\ notify.unsubs[notify.invoked[j].reg].type # AllTypes
    /\ notify.unsubs[notify.invoked[k].reg].type = AllTypes

\* the listener array an unsubscribe closure works on
ListOf(n, reg) ==
  IF n.unsubs[reg].type = AllTypes THEN n.globalListeners
  ELSE n.listeners[n.unsubs[reg].type]

\* C22: the first call of an unsubscribe closure removes the registration it
\* was returned for and no other; every later call of it leaves every
\* listener array as it is.
C22_UnsubscribeIdempotent ==
  [][\A reg \in 1..Len(notify.unsubs) :
       notify'.unsubs[reg].calls > notify.unsubs[reg].calls =>
         IF notify.unsubs[reg].calls = 0
         THEN /\ ListOf(notify', reg) =
                   SelectSeq(ListOf(notify, reg), LAMBDA l : l.reg # reg)
              /\ \A r \in 1..Len(notify.unsubs) :
                   ListOf(notify, r) # ListOf(notify, reg)
                     => ListOf(notify', r) = ListOf(notify, r)
         ELSE /\ notify'.listeners = notify.listeners
              /\ notify'.globalListeners = notify.globalListeners]_vars

\* C23: the buffer of a hook never holds more than 100 events and no two
\* with one event_id; as long as no evicted id has arrived again, it holds
\* the min(N, 100) most recent of the N distinct events handed to it, in the
\* order of their arrival.
C23_BufferHoldsMostRecent ==
  \A c \in Consumers :
    LET b == hooks[c].notifications
        N == hooks[c].nDistinct
    IN  /\ Len(b) <= BufferCap
        /\ \A i, j \in 1..Len(b) : i # j => b[i].event_id # b[j].event_id
        /\ hooks[c].nAgain = 0 =>
             /\ Len(b) = IF N < BufferCap THEN N ELSE BufferCap
             /\ \A i \in 1..Len(b) : b[i] = NumberedEvent(N - Len(b) + i)

\* C23 witness: a hook was handed two events more than the buffer holds, and
\* none again after its eviction.
C23_Witness ==
  /\ hooks[1].nDistinct = BufferCap + 2
  /\ hooks[1].nAgain = 0
  /\ Len(hooks[1].notifications) = BufferCap

\* C24: the step that dispatches an event whose id was dispatched before
\* calls no listener and leaves the buffer of every hook as it is.
C24_RepeatedIdHasNoEffect ==
  [][(/\ Len(notify'.dispatched) = Len(notify.dispatched) + 1
      /\ \E i \in 1..Len(notify.dispatched) :
           notify.dispatched[i].event.event_id =
             notify'.dispatched[Len(notify'.dispatched)].event.event_id)
     => /\ notify'.invoked = notify.invoked
        /\ \A c \in Consumers :
             hooks'[c].notifications = hooks[c].notifications]_vars

\* consumer c is mounted, authenticated and its handler is subscribed
Subscribed(n, h, c) ==
  /\ h[c].mounted
  /\ h[c].isAuthenticated
  /\ \E i \in 1..Len(n.globalListeners) :
       n.globalListeners[i].reg = h[c].unsubscribe

\* C30: the step in which one of two mounted, authenticated, subscribed
\* consumers unmounts or becomes unauthenticated while the service polls
\* leaves the other subscribed and the service polling.
C30_OtherConsumerKeepsDelivery ==
  [][\A c, o \in Consumers :
       (/\ c # o
        /\ Subscribed(notify, hooks, c)
        /\ Subscribed(notify, hooks, o)
        /\ notify.isPolling
        /\ ~hooks'[c].mounted \/ ~hooks'[c].isAuthenticated)
       => /\ Subscribed(notify', hooks', o)
          /\ notify'.isPolling
          /\ notify'.intervals # {}]_vars

\* C25: the step in which a notification fetch fails changes nothing but the
\* number of fetches awaited: no event is dispatched, no listener called,
\* lastEventId, the listener arrays and isPolling stay as they are, and the
\* interval timer stays scheduled, so that its next tick fetches again.
C25_FailedFetchAbsorbed ==
  [][(/\ notify'.inflight < notify.inflight
      /\ notify'.answered = notify.answered)
     => /\ notify' = [notify EXCEPT !.inflight = @ - 1,
                                    !.snapshots = notify'.snapshots]
        /\ notify'.dispatched = notify.dispatched
        /\ notify'.invoked = notify.invoked
        /\ notify'.lastEventId = notify.lastEventId
        /\ notify'.listeners = notify.listeners
        /\ notify'.globalListeners = notify.globalListeners
        /\ notify'.isPolling = notify.isPolling
        /\ notify'.pollingInterval = notify.pollingInterval
        /\ notify'.intervals = notify.intervals
        /\ hooks' = hooks]_vars

\* C25 witness: after one start() two fetches were made, the second by a
\* tick of the timer; one was answered and its event handed to a listener,
\* the other failed; the service still polls and its timer is scheduled.
C25_Witness ==
  /\ notify.nApi = 1
  /\ notify.nPolls = 2
  /\ notify.inflight = 0
  /\ Len(notify.answered) = 1
  /\ Len(notify.invoked) > 0
  /\ notify.isPolling
  /\ \E t \in notify.intervals : t.id = notify.pollingInterval

\* C26: once a response with status 401 has been received, to a request of
\* the axios client or to the streaming send, the stored token and user are
\* cleared and the location is the login page.
C26_UnauthorizedLogsOut ==
  session.n401 > 0 =>
    /\ ~session.access_token
    /\ ~session.user
    /\ session.href = "/login"

\* C27: after stop() and until a consumer calls start, startPolling or
\* startSSE again, the service does not poll, no interval timer is scheduled
\* and the service holds no push connection.
C27_StoppedStaysStopped ==
  notify.stopped =>
    /\ ~notify.isPolling
    /\ notify.intervals = {}
    /\ notify.eventSource = NoSource

\* C28: when fetches overlap, no event id is dispatched twice, and
\* lastEventId never moves back to a smaller id.
C28_OverlappingPollsAtMostOnce ==
  /\ [](\A i, j \in 1..Len(notify.dispatched) :
          i # j => notify.dispatched[i].event.event_id
                     # notify.dispatched[j].event.event_id)
  /\ [][notify.lastEventId # NoEvent
          => ~StrGreater(notify.lastEventId, notify'.lastEventId)]_vars

\* C29: the step that completes a send while a conversation is current
\* leaves currentConversation as it is, whatever conversation was current
\* when the send started.
C29_SwitchSurvivesCompletion ==
  [][\A s \in Slots :
       (/\ calls[s].pc = "reading"
        /\ calls'[s].ending = "finished"
        /\ currentConversation # NoConv)
       => currentConversation' = currentConversation]_vars

====
